---- MODULE Spec2Model ----
(***************************************************************************)
(* Model of the trade application: the upload path                         *)
(* (TradeUploadView.post / process_dataframe), the catalog and record      *)
(* tables (HSCode, TradeData), the dashboard (TradeDataListView) and the   *)
(* CSV export (export_filtered_data).                                      *)
(*                                                                         *)
(* Values.  A text value is a tuple of one-character strings, so that      *)
(* strip, upper, slicing and icontains are computed, not assumed.  A       *)
(* Python value that may be missing is a tuple of length 0 (None, or the   *)
(* blank cell fillna("") leaves) or of length 1 (the number).  Money and   *)
(* quantities are whole numbers; percentages are in hundredths of a        *)
(* percent (two decimal places).                                           *)
(***************************************************************************)
EXTENDS Integers, Sequences, FiniteSets, TLC

VARIABLES
    hscodes,         \* table HSCode: sequence of rows, primary key = index
    trades,          \* table TradeData (committed rows): primary key = index
    requests,        \* history of the upload requests: file, status, error and, for
                     \* the properties, the codes it found missing and those it created
    pc,              \* per worker: position inside post/process_dataframe
    req,             \* per worker: the request it is serving (0 = none)
    new_hs_objects,  \* per worker: local list of unsaved HSCode objects
    trade_objects,   \* per worker: local list of unsaved TradeData objects
    df,              \* per worker: the local dataframe after normalisation
    response         \* the last response of a read view; for the properties it
                     \* also holds the rows selected and the size of the table then

vars == <<hscodes, trades, requests, pc, req, df, new_hs_objects, trade_objects,
          response>>

-----------------------------------------------------------------------------
(* Bounds of the model *)

MaxUploads == 2
MaxBatch == 2

\* the request handlers that may run at the same time, in the order in which the
\* server hands a new request to a free one
WorkerOrder == <<"w1", "w2">>
Workers == {WorkerOrder[i] : i \in DOMAIN WorkerOrder}
FirstIdle(state) ==
    WorkerOrder[CHOOSE i \in DOMAIN WorkerOrder :
                    /\ state[WorkerOrder[i]] = "idle"
                    /\ \A j \in 1..(i - 1) : state[WorkerOrder[j]] # "idle"]

-----------------------------------------------------------------------------
(* Program constants *)

TopN == 10

-----------------------------------------------------------------------------
(* Text *)

None == <<>>
Num(n) == <<n>>
Blank == <<>>

LowerLetters == <<"a","b","c","d","e","f","g","h","i","j","k","l","m",
                  "n","o","p","q","r","s","t","u","v","w","x","y","z">>
UpperLetters == <<"A","B","C","D","E","F","G","H","I","J","K","L","M",
                  "N","O","P","Q","R","S","T","U","V","W","X","Y","Z">>

Letter(c, from) == \E i \in 1..26 : from[i] = c
IndexOf(c, from) == CHOOSE i \in 1..26 : from[i] = c

\* str.upper() and str.lower(), character by character
UpperChar(c) == IF Letter(c, LowerLetters) THEN UpperLetters[IndexOf(c, LowerLetters)] ELSE c
LowerChar(c) == IF Letter(c, UpperLetters) THEN LowerLetters[IndexOf(c, UpperLetters)] ELSE c

Chars == {LowerLetters[i] : i \in 1..26} \cup {UpperLetters[i] : i \in 1..26}
            \cup {"0", "1", "2", "3", "4", "5", "6", "7", "8", "9", " ", "-"}
UpperOf == [c \in Chars |-> UpperChar(c)]
LowerOf == [c \in Chars |-> LowerChar(c)]

Upper(s) == [i \in 1..Len(s) |-> UpperOf[s[i]]]
Lower(s) == [i \in 1..Len(s) |-> LowerOf[s[i]]]

RECURSIVE LStrip(_)
LStrip(s) == IF s # <<>> /\ s[1] = " " THEN LStrip(Tail(s)) ELSE s

RECURSIVE RStrip(_)
RStrip(s) ==
    IF s # <<>> /\ s[Len(s)] = " " THEN RStrip(SubSeq(s, 1, Len(s) - 1)) ELSE s

Strip(s) == RStrip(LStrip(s))

\* Python slice s[:n]
Prefix(s, n) == SubSeq(s, 1, IF Len(s) < n THEN Len(s) ELSE n)

\* SQL: hay LIKE %needle% ignoring case
IContains(hay, needle) ==
    \E i \in 0..(Len(hay) - Len(needle)) :
        Lower(SubSeq(hay, i + 1, i + Len(needle))) = Lower(needle)

-----------------------------------------------------------------------------
(* Uploaded files: the rows a decoded file may carry *)

T_import_sp == <<" ","i","m","p","o","r","t"," ">>
T_Export == <<"E","x","p","o","r","t">>
T_reexp == <<"r","e","-","e","x","p">>
IMPORT == <<"I","M","P","O","R","T">>
EXPORT == <<"E","X","P","O","R","T">>

Code0101 == <<"0","1","0","1">>
Code0101_sp == <<" ","0","1","0","1">>
Code0202105 == <<"0","2","0","2","1","0","5">>
Code7 == <<"7">>

D_Oat == <<"O","a","t">>
D_oats == <<"o","a","t","s">>
D_Beef == <<"B","e","e","f">>
D_Tea == <<"T","e","a">>

KE == <<"K","E">>
UG == <<"U","G">>

Row(y, m, tt, code, desc, ctry, q, v) ==
    [year |-> y, month |-> m, trade_type |-> tt, hs_code |-> code,
     description |-> desc, country |-> ctry, quantity |-> q, value_usd |-> v]

Rows == {
    Row(Num(2024), 12, T_import_sp, Code0101,    D_Oat,  KE,    Num(5), Num(100)),
    Row(Num(2024), 12, T_Export,    Code0101_sp, D_oats, UG,    Num(2), Num(300)),
    Row(Num(2023), 13, EXPORT,      Code0202105, D_Beef, KE,    Num(1), Num(50)),
    Row(Num(2023), 1,  T_reexp,     Code0202105, D_Beef, Blank, Num(1), Num(50)),
    Row(Blank,     6,  IMPORT,      Code7,       D_Tea,  KE,    Num(1), Num(50)),
    Row(Num(2023), 6,  EXPORT,      Code7,       D_Tea,  KE,    Blank,  Num(50))
}

Files == UNION {[1..n -> Rows] : n \in 1..MaxBatch}

-----------------------------------------------------------------------------
(* process_dataframe: normalisation *)

\* df["hs_code"].astype(str).str.strip(); df["trade_type"].str.upper().str.strip()
\* line is the row's index in the file (the dataframe index)
CleanRow(r, i) ==
    [r EXCEPT !.hs_code = Strip(r.hs_code),
              !.trade_type = Strip(Upper(r.trade_type))] @@ [line |-> i]

\* the filter left out: every row is kept
ValidMonthAlways(m) == TRUE

\* (df["month"] >= 1) & (df["month"] <= 12)
ValidMonth(m) == m >= 1 /\ m <= 12

Normalize(file) ==
    SelectSeq([i \in 1..Len(file) |-> CleanRow(file[i], i)],
              LAMBDA r : ValidMonth(r.month))

\* df[["hs_code", "description"]].drop_duplicates(): first occurrence of each pair
RECURSIVE DropDuplicates(_, _)
DropDuplicates(pairs, seen) ==
    IF pairs = <<>> THEN <<>>
    ELSE IF Head(pairs) \in seen THEN DropDuplicates(Tail(pairs), seen)
    ELSE <<Head(pairs)>> \o DropDuplicates(Tail(pairs), seen \cup {Head(pairs)})

UniqueHsCodes(frame) ==
    DropDuplicates([i \in 1..Len(frame) |->
                       [hs_code |-> frame[i].hs_code,
                        description |-> frame[i].description]],
                   {})

-----------------------------------------------------------------------------
(* Tables *)

CodesIn(table) == {table[i].code : i \in 1..Len(table)}

\* primary key of the catalog row with this code (the code is unique)
PkOf(table, code) == CHOOSE i \in 1..Len(table) : table[i].code = code

CatalogCount(code) == Cardinality({i \in 1..Len(hscodes) : hscodes[i].code = code})

\* HSCode(code=..., description=...): the other fields keep the CharField default ""
NewHSCode(code, description) ==
    [code |-> code, description |-> description,
     chapter |-> Blank, heading |-> Blank, subheading |-> Blank]

\* HSCode.save(): the prefixes are set from the code
Saved(hs) ==
    [hs EXCEPT !.chapter = Prefix(hs.code, 2),
               !.heading = Prefix(hs.code, 4),
               !.subheading = Prefix(hs.code, 6)]

\* unique=True on HSCode.code: the insert is refused when a code is already
\* stored or occurs twice among the rows to insert
UniqueViolation(table, objs) ==
    \/ \E i \in 1..Len(objs) : objs[i].code \in CodesIn(table)
    \/ \E i, j \in 1..Len(objs) : i # j /\ objs[i].code = objs[j].code

-----------------------------------------------------------------------------

Init ==
    /\ hscodes = <<>>
    /\ trades = <<>>
    /\ requests = <<>>
    /\ pc = [w \in Workers |-> "idle"]
    /\ req = [w \in Workers |-> 0]
    /\ new_hs_objects = [w \in Workers |-> <<>>]
    /\ trade_objects = [w \in Workers |-> <<>>]
    /\ df = [w \in Workers |-> <<>>]
    /\ response = [view |-> "none", raised |-> FALSE]

\* post: a valid form with all required columns; process_dataframe starts
Post(w, file) ==
    /\ pc[w] = "idle"
    /\ w = FirstIdle(pc)
    /\ Len(requests) < MaxUploads
    /\ requests' = Append(requests,
                          [file |-> file, status |-> "running", error |-> "none",
                           missing |-> <<>>, created |-> {}])
    /\ req' = [req EXCEPT ![w] = Len(requests) + 1]
    /\ df' = [df EXCEPT ![w] = Normalize(file)]
    /\ pc' = [pc EXCEPT ![w] = "lookup"]
    /\ UNCHANGED <<hscodes, trades, new_hs_objects, trade_objects, response>>

\* except Exception: messages.error("Upload failed: ..."); the worker is free again
Fail(w, error) ==
    /\ requests' = [requests EXCEPT ![req[w]].status = "failed",
                                    ![req[w]].error = error]
    /\ pc' = [pc EXCEPT ![w] = "idle"]
    /\ req' = [req EXCEPT ![w] = 0]
    /\ df' = [df EXCEPT ![w] = <<>>]
    /\ new_hs_objects' = [new_hs_objects EXCEPT ![w] = <<>>]
    /\ trade_objects' = [trade_objects EXCEPT ![w] = <<>>]

\* return len(trade_objects); messages.success("... records uploaded successfully.")
Done(w) ==
    /\ requests' = [requests EXCEPT ![req[w]].status = "done"]
    /\ pc' = [pc EXCEPT ![w] = "idle"]
    /\ req' = [req EXCEPT ![w] = 0]
    /\ df' = [df EXCEPT ![w] = <<>>]
    /\ new_hs_objects' = [new_hs_objects EXCEPT ![w] = <<>>]
    /\ trade_objects' = [trade_objects EXCEPT ![w] = <<>>]

\* existing_hs = {... HSCode.objects.filter(code__in=...)}; new_hs_objects
Lookup(w) ==
    /\ pc[w] = "lookup"
    /\ LET unique == UniqueHsCodes(df[w])
           existing_hs == CodesIn(hscodes)
           missing == SelectSeq(unique, LAMBDA u : u.hs_code \notin existing_hs)
       IN  /\ new_hs_objects' = [new_hs_objects EXCEPT ![w] =
                  [i \in 1..Len(missing) |->
                      NewHSCode(missing[i].hs_code, missing[i].description)]]
           /\ requests' = [requests EXCEPT ![req[w]].missing =
                  [i \in 1..Len(missing) |-> missing[i].hs_code]]
    /\ pc' = [pc EXCEPT ![w] = "create"]
    /\ UNCHANGED <<hscodes, trades, req, df, trade_objects, response>>

\* HSCode.objects.bulk_create(new_hs_objects, batch_size=1000): one INSERT inside
\* bulk_create's own transaction; save() is not called.  A unique violation raises
\* IntegrityError and nothing of the statement is stored.
BulkCreateHS(w) ==
    /\ pc[w] = "create"
    /\ IF new_hs_objects[w] = <<>>
       THEN /\ pc' = [pc EXCEPT ![w] = "reload"]
            /\ UNCHANGED <<hscodes, requests, req, df, new_hs_objects, trade_objects>>
       ELSE IF UniqueViolation(hscodes, new_hs_objects[w])
       THEN /\ Fail(w, "IntegrityError")
            /\ UNCHANGED hscodes
       ELSE /\ hscodes' = hscodes \o new_hs_objects[w]
            /\ requests' = [requests EXCEPT ![req[w]].created =
                               CodesIn(new_hs_objects[w])]
            /\ pc' = [pc EXCEPT ![w] = "reload"]
            /\ UNCHANGED <<req, df, new_hs_objects, trade_objects>>
    /\ UNCHANGED <<trades, response>>

\* TradeData(year=int(row.year), ..., hs_code=all_hs[row.hs_code], ...)
NewTradeData(row, all_hs, r) ==
    [year |-> row.year[1], month |-> row.month, trade_type |-> row.trade_type,
     hs_code |-> PkOf(all_hs, row.hs_code), country |-> row.country,
     quantity |-> row.quantity, unit |-> None, value_usd |-> row.value_usd,
     req |-> r, line |-> row.line]

\* all_hs = {... HSCode.objects.filter(code__in=df["hs_code"])}; then the loop that
\* builds trade_objects: int("") raises ValueError, a code missing from all_hs
\* raises KeyError
Reload(w) ==
    /\ pc[w] = "reload"
    /\ LET all_hs == hscodes
           rows == df[w]
       IN IF \E i \in 1..Len(rows) : rows[i].hs_code \notin CodesIn(all_hs)
          THEN Fail(w, "KeyError")
          ELSE IF \E i \in 1..Len(rows) : rows[i].year = Blank
          THEN Fail(w, "ValueError")
          ELSE /\ trade_objects' = [trade_objects EXCEPT ![w] =
                      [i \in 1..Len(rows) |-> NewTradeData(rows[i], all_hs, req[w])]]
               /\ pc' = [pc EXCEPT ![w] = "insert"]
               /\ UNCHANGED <<requests, req, df, new_hs_objects>>
    /\ UNCHANGED <<hscodes, trades, response>>

\* DecimalField.get_db_prep_save: Decimal("") is refused with ValidationError
Insertable(obj) == obj.quantity # Blank /\ obj.value_usd # Blank

\* the rows of a statement that the database wrote before the statement failed
WrittenBefore(chunk) ==
    SubSeq(chunk, 1, (CHOOSE i \in 1..Len(chunk) :
                         /\ ~Insertable(chunk[i])
                         /\ \A j \in 1..(i - 1) : Insertable(chunk[j])) - 1)

\* the insert outside any transaction: the rows written before the failure stay
NoRollback(store, written) == store \o written

\* with transaction.atomic(): an exception inside the block rolls back every row
\* written in it, the table is as before
Rollback(store, written) == store

\* with transaction.atomic(): TradeData.objects.bulk_create(trade_objects,
\* batch_size=2000): the INSERTs run inside one transaction, whose rows no other
\* request sees before the commit that ends the block
InsertTrades(w) ==
    /\ pc[w] = "insert"
    /\ IF \E i \in 1..Len(trade_objects[w]) : ~Insertable(trade_objects[w][i])
       THEN /\ Fail(w, "ValidationError")
            /\ trades' = Rollback(trades, WrittenBefore(trade_objects[w]))
       ELSE /\ trades' = trades \o trade_objects[w]
            /\ Done(w)
    /\ UNCHANGED <<hscodes, response>>

-----------------------------------------------------------------------------
(* Read views: request.GET parameters; an absent parameter is empty (falsy) *)

Params(y, m, tt, ctry, search, crop) ==
    [year |-> y, month |-> m, trade_type |-> tt, country |-> ctry,
     search |-> search, crop |-> crop]

S_OA == <<"O","A">>
S_02 == <<"0","2">>

Queries == {
    Params(None, None, Blank, Blank, Blank, Blank),
    Params(None, None, IMPORT, Blank, Blank, Blank),
    Params(None, None, Blank, Blank, S_OA, Blank),
    Params(None, None, Blank, Blank, S_02, Blank),
    Params(Num(1999), None, Blank, Blank, Blank, Blank),
    Params(Num(2024), Num(12), Blank, KE, Blank, Blank),
    Params(None, None, Blank, Blank, Blank, D_Beef)
}

Pks(table) == 1..Len(table)

\* TradeDataListView.get_queryset: the primary keys of the selected rows
GetQueryset(p) ==
    {pk \in Pks(trades) :
        LET t == trades[pk]
            hs == hscodes[t.hs_code]
        IN /\ (p.year # None => t.year = p.year[1])
           /\ (p.month # None => t.month = p.month[1])
           /\ (p.trade_type # Blank => t.trade_type = p.trade_type)
           /\ (p.country # Blank => t.country = p.country)
           /\ (p.search # Blank =>
                  \/ IContains(hs.code, p.search)
                  \/ IContains(hs.description, p.search))}

\* export_filtered_data: the rows its queryset selects
ExportQueryset(p) ==
    {pk \in Pks(trades) :
        LET t == trades[pk]
            hs == hscodes[t.hs_code]
        IN /\ (p.year # None => t.year = p.year[1])
           /\ (p.month # None => t.month = p.month[1])
           /\ (p.crop # Blank => hs.description = p.crop)
           /\ (p.country # Blank => t.country = p.country)}

RECURSIVE SumOver(_, _)
SumOver(qs, field) ==
    IF qs = {} THEN 0
    ELSE LET pk == CHOOSE x \in qs : TRUE
         IN trades[pk][field][1] + SumOver(qs \ {pk}, field)

\* aggregate(Sum(field)): NULL, that is None, over no rows
Sum(qs, field) == IF qs = {} THEN None ELSE Num(SumOver(qs, field))

\* aggregate(Count("id"))
Count(qs) == Num(Cardinality(qs))

\* the aggregate used as it is, without  or 0
KeepNone(v) == v

\* Python's  v or 0
OrZero(v) == IF v = None \/ v = Num(0) THEN Num(0) ELSE v

\* round(n / d, 0) for n >= 0, d > 0, halves to even (decimal's rounding)
RoundDiv(n, d) ==
    LET q == n \div d
        r == n % d
    IN IF 2 * r > d THEN q + 1
       ELSE IF 2 * r = d THEN q + (q % 2)
       ELSE q

\* round(part / whole * 100, 2), in hundredths of a percent
Percentage(part, whole) == RoundDiv(part * 10000, whole)

\* .values(key).annotate(total_value=Sum("value_usd")): one group per value of the
\* key, which is given as a function of the primary key
GroupBy(qs, key) ==
    {[key |-> k, total_value |-> SumOver({pk \in qs : key[pk] = k}, "value_usd")] :
        k \in {key[pk] : pk \in qs}}

\* .order_by("-total_value")[:10]: the groups that fewer than ten groups exceed
Top(groups) ==
    IF Cardinality(groups) <= TopN THEN groups
    ELSE CHOOSE top \in SUBSET groups :
            /\ Cardinality(top) = TopN
            /\ \A g \in top, h \in groups \ top : g.total_value >= h.total_value

RECURSIVE SumTotals(_)
SumTotals(groups) ==
    IF groups = {} THEN 0
    ELSE LET g == CHOOSE x \in groups : TRUE
         IN g.total_value + SumTotals(groups \ {g})

\* the literals of filter(trade_type="Export") and filter(trade_type="Import");
\* the comparison is exact, as in SQLite and PostgreSQL
T_ExportLabel == <<"E","x","p","o","r","t">>
T_ImportLabel == <<"I","m","p","o","r","t">>

Distinct(field) == {trades[pk][field] : pk \in Pks(trades)}

\* TradeDataListView.get_context_data.  None > 0 and None - None raise TypeError.
ContextData(p) ==
    LET qs == GetQueryset(p)
        top_countries ==
            Top(GroupBy({pk \in qs : trades[pk].country # Blank},
                        [pk \in qs |-> trades[pk].country]))
        top_hs_codes ==
            Top(GroupBy(qs, [pk \in qs |-> <<hscodes[trades[pk].hs_code].code,
                                              hscodes[trades[pk].hs_code].description>>]))
        split == GroupBy(qs, [pk \in qs |-> trades[pk].trade_type])
        total_trade == SumTotals(split)
        trade_split ==
            {[trade_type |-> g.key, total_value |-> g.total_value,
              percentage |-> IF total_trade > 0
                             THEN Percentage(g.total_value, total_trade) ELSE 0] :
                g \in split}
        top_total == SumTotals(top_hs_codes)
        overall_total == OrZero(Sum(qs, "value_usd"))
        exports ==
            OrZero(Sum({pk \in qs : trades[pk].trade_type = T_ExportLabel}, "value_usd"))
        imports ==
            OrZero(Sum({pk \in qs : trades[pk].trade_type = T_ImportLabel}, "value_usd"))
    IN IF overall_total = None \/ exports = None \/ imports = None
       THEN [view |-> "dashboard", params |-> p, raised |-> TRUE,
             stored |-> Len(trades), queryset |-> qs]
       ELSE [view |-> "dashboard", params |-> p, raised |-> FALSE,
             stored |-> Len(trades), queryset |-> qs,
             total_quantity |-> OrZero(Sum(qs, "quantity")),
             total_value |-> OrZero(Sum(qs, "value_usd")),
             total_records |-> OrZero(Count(qs)),
             top_countries |-> top_countries,
             top_hs_codes |-> top_hs_codes,
             trade_split |-> trade_split,
             concentration_ratio |->
                 IF overall_total[1] > 0
                 THEN Percentage(top_total, overall_total[1]) ELSE 0,
             trade_balance |-> exports[1] - imports[1],
             years |-> Distinct("year"),
             months |-> Distinct("month"),
             trade_types |-> Distinct("trade_type"),
             countries |-> Distinct("country")]

\* GET of the dashboard (TradeDataListView)
Dashboard(p) ==
    /\ response' = ContextData(p)
    /\ UNCHANGED <<hscodes, trades, requests, pc, req, df, new_hs_objects,
                   trade_objects>>

\* one line of the CSV per object of the queryset
CsvRow(t) ==
    <<t.year, t.month, t.country, hscodes[t.hs_code].code,
      hscodes[t.hs_code].description, t.trade_type, t.quantity, t.value_usd>>

\* GET of export_filtered_data
Export(p) ==
    /\ response' = [view |-> "export", params |-> p, raised |-> FALSE,
                    stored |-> Len(trades), queryset |-> ExportQueryset(p),
                    rows |-> [pk \in ExportQueryset(p) |-> CsvRow(trades[pk])]]
    /\ UNCHANGED <<hscodes, trades, requests, pc, req, df, new_hs_objects,
                   trade_objects>>

Uploads ==
    \/ \E w \in Workers, file \in Files : Post(w, file)
    \/ \E w \in Workers : Lookup(w)
    \/ \E w \in Workers : BulkCreateHS(w)
    \/ \E w \in Workers : Reload(w)
    \/ \E w \in Workers : InsertTrades(w)

Reads ==
    \/ \E p \in Queries : Dashboard(p)
    \/ \E p \in Queries : Export(p)

\* One handler at a time serves the uploads
UploadsInTurn ==
    \/ \E file \in Files : Post(WorkerOrder[1], file)
    \/ Lookup(WorkerOrder[1])
    \/ BulkCreateHS(WorkerOrder[1])
    \/ Reload(WorkerOrder[1])
    \/ InsertTrades(WorkerOrder[1])

Next == Uploads \/ Reads

\* The whole system: concurrent uploads and reads
SystemSpec == Init /\ [][Next]_vars

\* The uploads, served concurrently
Spec == Init /\ [][Uploads]_vars

\* The read views over the tables that uploads served in turn build
ReadNext == UploadsInTurn \/ Reads
ReadSpec == Init /\ [][ReadNext]_vars

-----------------------------------------------------------------------------
(* Properties *)

Finished(r) == requests[r].status # "running"

\* the lines of a file whose month is in 1..12, and the codes they name
InRange(file) == {i \in 1..Len(file) : file[i].month \in 1..12}
CodesNamed(file) == {Strip(file[i].hs_code) : i \in InRange(file)}
DescriptionsOf(file, code) ==
    {file[i].description : i \in {j \in InRange(file) : Strip(file[j].hs_code) = code}}
FirstDescription(file, code) ==
    file[CHOOSE i \in InRange(file) :
            /\ Strip(file[i].hs_code) = code
            /\ \A j \in InRange(file) : Strip(file[j].hs_code) = code => i <= j].description

\* the stored records that came from request r, and their lines in its file
StoredFrom(r) == {pk \in Pks(trades) : trades[pk].req = r}
StoredLines(r) == {trades[pk].line : pk \in StoredFrom(r)}

\* C1: when two uploads have ended whose files both name a code, the catalog
\* holds exactly one entry for that code, whatever the interleaving was
C1_OneEntryForSharedCode ==
    \A r1, r2 \in DOMAIN requests :
        (r1 # r2 /\ Finished(r1) /\ Finished(r2)) =>
            \A c \in CodesNamed(requests[r1].file) \cap CodesNamed(requests[r2].file) :
                CatalogCount(c) = 1

\* the codes an upload set out to create are all different, its rows have a year
\* and a quantity: nothing in the file itself makes the upload fail
FailsOnlyByOthers(r) ==
    LET q == requests[r]
    IN /\ \A i, j \in 1..Len(q.missing) : i # j => q.missing[i] # q.missing[j]
       /\ \A i \in InRange(q.file) :
              q.file[i].year # Blank /\ q.file[i].quantity # Blank

\* C2: an upload never fails because of another one: if its own file gives no
\* reason to fail, it ends done, with every row of its batch stored
C2_ConcurrentUploadsTolerated ==
    \A r \in DOMAIN requests :
        (Finished(r) /\ FailsOnlyByOthers(r)) =>
            /\ requests[r].status = "done"
            /\ StoredLines(r) = InRange(requests[r].file)

\* C3: the stored records of one upload are none or the whole batch; a failed
\* upload leaves none, and the catalog entries it created remain
C3_AllOrNothing ==
    \A r \in DOMAIN requests :
        /\ \/ StoredFrom(r) = {}
           \/ /\ StoredLines(r) = InRange(requests[r].file)
              /\ Cardinality(StoredFrom(r)) = Cardinality(InRange(requests[r].file))
        /\ requests[r].status # "done" => StoredFrom(r) = {}
        /\ \A c \in requests[r].created : CatalogCount(c) = 1

\* a failed upload of two rows or more, the first of which could have been stored,
\* that had created catalog entries: both kinds of failure, while building the
\* records and while inserting them
C3_Witness ==
    /\ \E r \in DOMAIN requests :
           /\ requests[r].status = "failed" /\ requests[r].error = "ValueError"
           /\ Cardinality(InRange(requests[r].file)) >= 2
           /\ requests[r].file[1].year # Blank
           /\ requests[r].created # {} /\ StoredFrom(r) = {}
    /\ \E r \in DOMAIN requests :
           /\ requests[r].status = "failed" /\ requests[r].error = "ValidationError"
           /\ Cardinality(InRange(requests[r].file)) >= 2
           /\ requests[r].file[1].quantity # Blank
           /\ requests[r].created # {} /\ StoredFrom(r) = {}

\* C4: every catalog entry has chapter, heading and subheading equal to the first
\* 2, 4 and 6 characters of its code
C4_PrefixesFollowCode ==
    \A i \in 1..Len(hscodes) :
        /\ hscodes[i].chapter = Prefix(hscodes[i].code, 2)
        /\ hscodes[i].heading = Prefix(hscodes[i].code, 4)
        /\ hscodes[i].subheading = Prefix(hscodes[i].code, 6)
        /\ Saved(hscodes[i]) = hscodes[i]

\* C5: the dashboard's trade_balance is the value of the selected EXPORT records
\* minus the value of the selected IMPORT records
C5_TradeBalance ==
    (response.view = "dashboard" /\ ~response.raised) =>
        response.trade_balance =
            SumOver({pk \in response.queryset : trades[pk].trade_type = EXPORT}, "value_usd")
            - SumOver({pk \in response.queryset : trades[pk].trade_type = IMPORT}, "value_usd")

\* C6: every stored record has its month in 1..12: a row with another month is
\* never stored, and an upload that ends done has stored every row in the range
C6_MonthInRange ==
    /\ \A pk \in Pks(trades) :
           /\ trades[pk].month >= 1 /\ trades[pk].month <= 12
           /\ trades[pk].month = requests[trades[pk].req].file[trades[pk].line].month
    /\ \A r \in DOMAIN requests :
           requests[r].status = "done" =>
               StoredLines(r) = {i \in 1..Len(requests[r].file) :
                                    requests[r].file[i].month \in 1..12}

\* an upload that ended done, whose file had a row of month 13, which is not
\* stored, and a row of month 12, which is
C6_Witness ==
    \E r \in DOMAIN requests :
        /\ requests[r].status = "done"
        /\ \E i \in 1..Len(requests[r].file) :
               requests[r].file[i].month = 13 /\ i \notin StoredLines(r)
        /\ \E i \in 1..Len(requests[r].file) :
               requests[r].file[i].month = 12 /\ i \in StoredLines(r)

\* C7: every stored record has trade direction IMPORT or EXPORT
C7_DirectionIsEnum ==
    \A pk \in Pks(trades) : trades[pk].trade_type \in {IMPORT, EXPORT}

\* C8: for parameters year, month, trade_type, country and search, the export
\* holds exactly the records the listing selects
C8_ExportEqualsListing ==
    (response.view = "export" /\ response.params.crop = Blank) =>
        response.queryset =
            {pk \in GetQueryset(response.params) : pk <= response.stored}

\* C9: the dashboard over an empty selection does not raise and reports zero
\* totals, zero ratio and balance, and empty breakdowns
C9_EmptySelectionIsZero ==
    (response.view = "dashboard" /\ response.queryset = {}) =>
        /\ ~response.raised
        /\ response.total_quantity = Num(0)
        /\ response.total_value = Num(0)
        /\ response.total_records = Num(0)
        /\ response.concentration_ratio = 0
        /\ response.trade_balance = 0
        /\ response.top_countries = {}
        /\ response.top_hs_codes = {}
        /\ response.trade_split = {}

\* the dashboard answered over a table that holds records, none of them selected
C9_Witness ==
    /\ response.view = "dashboard"
    /\ response.queryset = {}
    /\ response.stored > 0
    /\ ~response.raised
    /\ response.total_records = Num(0)

\* C10: a code that occurs with several descriptions in one file does not make
\* the upload fail; the catalog then holds one entry for it, with the description
\* of the first occurrence in the file of the upload that created it
C10_FirstOccurrenceWins ==
    \A r \in DOMAIN requests :
        Finished(r) =>
            \A c \in CodesNamed(requests[r].file) :
                Cardinality(DescriptionsOf(requests[r].file, c)) > 1 =>
                    /\ requests[r].error # "IntegrityError"
                    /\ CatalogCount(c) = 1
                    /\ \A q \in DOMAIN requests :
                           c \in requests[q].created =>
                               hscodes[PkOf(hscodes, c)].description =
                                   FirstDescription(requests[q].file, c)

====
